---- MODULE Spec2Model ----
(***************************************************************************)
(* Event-driven CSV ingestion pipeline of src/6_3.py: a watchdog observer  *)
(* thread delivers create notifications to CSVHandler.on_created, which    *)
(* hands a process_csv coroutine to the asyncio event loop.  The coroutine *)
(* reads, filters, stages, uploads, archives and cleans up one file.       *)
(*                                                                         *)
(* Coroutines run on one event-loop thread, so the code between two awaits *)
(* is one atomic step with respect to the other coroutines.  process_csv   *)
(* suspends in send_file: on entering the client context (_connect), on    *)
(* put_object and on leaving the client context.                           *)
(***************************************************************************)
EXTENDS Integers, Sequences, FiniteSets, Bags, TLC

\* Bounds of the model.
MaxEvents == 2    \* create notifications the observer delivers
MaxCreates == 2   \* files the environment creates in the watched directory

----------------------------------------------------------------------------
(* File names are sequences of characters, so that Path.suffix and         *)
(* str.lower are computed and not assumed.                                 *)

NameA == <<"a", ".", "c", "s", "v">>
NameB == <<"b", ".", "C", "S", "V">>
NameT == <<"c", ".", "t", "x", "t">>
NameN == <<"c", "s", "v">>
NameD == <<"d", ".", "c", "s", "v">>

\* Files the environment drops into the watched directory.
FileNames == {NameA, NameB}

UpperCase == <<"A","B","C","D","E","F","G","H","I","J","K","L","M",
               "N","O","P","Q","R","S","T","U","V","W","X","Y","Z">>
LowerCase == <<"a","b","c","d","e","f","g","h","i","j","k","l","m",
               "n","o","p","q","r","s","t","u","v","w","x","y","z">>

\* str.lower on one character.
LowerChar(c) ==
    IF \E k \in 1..Len(UpperCase) : UpperCase[k] = c
    THEN LowerCase[CHOOSE k \in 1..Len(UpperCase) : UpperCase[k] = c]
    ELSE c

\* str.lower
lower(s) == [k \in 1..Len(s) |-> LowerChar(s[k])]

\* str.rfind('.') with 1-based positions, 0 when there is no dot.
rfind_dot(s) ==
    IF \E k \in 1..Len(s) : s[k] = "."
    THEN CHOOSE k \in 1..Len(s) :
            /\ s[k] = "."
            /\ \A j \in (k+1)..Len(s) : s[j] # "."
    ELSE 0

\* pathlib.PurePath.suffix: the last dot-extension of the final component,
\* empty for a leading or a trailing dot.
suffix(name) ==
    LET i == rfind_dot(name)
    IN  IF 1 < i /\ i < Len(name) THEN SubSeq(name, i, Len(name)) ELSE <<>>

CsvSuffix == <<".", "c", "s", "v">>

\* Mutant of remote_name: the object is keyed by the bare file name.
remote_name_bare(name) == name

\* process_csv: remote_name = f"processed/{file_path.name}".
remote_name(name) == <<"processed/">> \o name

----------------------------------------------------------------------------
(* File contents.  A file is a CSV text with the columns id,val or bytes   *)
(* pandas cannot parse.  Cells are the literals as written in the file.    *)

Row(id, val) == [id |-> id, val |-> val]

Garbage == [kind |-> "garbage", rows |-> <<>>]
Example == [kind |-> "csv", rows |-> <<Row(1, "5"), Row(2, ""), Row(3, "9")>>]
Clean   == [kind |-> "csv", rows |-> <<Row(1, "5"), Row(2, "9")>>]

Contents == {Garbage, Example, Clean}

IntLiterals   == {"5", "9"}

\* The number a cell literal denotes; <<>> is NaN.
ParseCell(s) ==
    CASE s = ""    -> <<>>
      [] s = "5"   -> <<5>>
      [] s = "5.0" -> <<5>>
      [] s = "9"   -> <<9>>
      [] s = "9.0" -> <<9>>

\* How to_csv writes a value of a column of the given dtype.
FormatCell(dtype, v) ==
    CASE v = <<>>  -> ""
      [] v = <<5>> -> IF dtype = "int64" THEN "5" ELSE "5.0"
      [] v = <<9>> -> IF dtype = "int64" THEN "9" ELSE "9.0"

\* pd.read_csv raises on bytes that are no CSV.
CanParse(content) == content.kind = "csv"

\* pd.read_csv: the column val is int64 when every cell is an integer
\* literal, and float64 as soon as one cell is missing or a float.
read_csv(content) ==
    [dtype |-> IF \A k \in 1..Len(content.rows) : content.rows[k].val \in IntLiterals
               THEN "int64" ELSE "float64",
     rows  |-> [k \in 1..Len(content.rows) |->
                   Row(content.rows[k].id, ParseCell(content.rows[k].val))]]

notna(r) == r.val # <<>>

\* Mutant of dropna: the filter keeps every row.
dropna_keeps_all(df) == df

\* DataFrame.dropna: the rows without a missing value, in order.
dropna(df) == [dtype |-> df.dtype, rows |-> SelectSeq(df.rows, notna)]

\* DataFrame.to_csv(index=False)
to_csv(df) ==
    [kind |-> "csv",
     rows |-> [k \in 1..Len(df.rows) |->
                  Row(df.rows[k].id, FormatCell(df.dtype, df.rows[k].val))]]

----------------------------------------------------------------------------
(* Directories and the bucket are maps from the names present to contents. *)

Put(dir, n, c) == [m \in (DOMAIN dir) \cup {n} |-> IF m = n THEN c ELSE dir[m]]
\* Mutant of Remove: the entry stays.
Remove_nothing(dir, n) == dir

Remove(dir, n) == [m \in (DOMAIN dir) \ {n} |-> dir[m]]
EmptyDir == [m \in {} |-> Garbage]

VARIABLES
    srcDir,     \* watched directory (source_dir)
    tmpDir,     \* temp_dir
    archDir,    \* archive_dir
    bucket,     \* remote bucket: key -> body
    runs,       \* process_csv coroutines handed to the loop, in scheduling order
    delivered,  \* number of create notifications delivered to on_created
    matched,    \* history: paths of the delivered file notifications for *.csv
    created,    \* history: bag of the files <<name, content>> the environment created
    overlapped, \* history: names for which two runs were in flight at once
    proc,       \* the process running main(): its position, the CA file, the observer
    client      \* the last call made on the storage client of 6_1.py

vars == <<srcDir, tmpDir, archDir, bucket, runs, delivered, matched, created,
          overlapped, proc, client>>

\* What the pipeline leaves alone: main()'s own state and the demo client.
outside == <<proc, client>>

----------------------------------------------------------------------------
(* Create notifications.  The watcher observes source_dir non-recursively, *)
(* so src_path is modelled by its final component.                         *)

Event(is_directory, src_path) == [is_directory |-> is_directory, src_path |-> src_path]

Events == {Event(FALSE, NameA), Event(FALSE, NameB), Event(FALSE, NameT),
           Event(FALSE, NameN), Event(TRUE, NameD)}

\* Mutant of accepts: the suffix is compared as written.
accepts_case_sensitive(event) ==
    /\ ~event.is_directory
    /\ suffix(event.src_path) = CsvSuffix

\* Reference for the history variable matched: a file event whose name ends,
\* after a non-empty stem, in .csv written in any letter case.
IsCsvFileEvent(event) ==
    LET p == event.src_path
        n == Len(p)
    IN  /\ event.is_directory = FALSE
        /\ n >= 5
        /\ p[n-3] = "."
        /\ p[n-2] \in {"c", "C"}
        /\ p[n-1] \in {"s", "S"}
        /\ p[n] \in {"v", "V"}

\* on_created's filter: not a directory, and suffix.lower() == '.csv'.
accepts(event) ==
    /\ ~event.is_directory
    /\ lower(suffix(event.src_path)) = CsvSuffix

----------------------------------------------------------------------------
(* Exceptions.  Every class raised in a run derives from Exception.        *)

ExceptionClasses == {"FileNotFoundError", "ParserError", "OSError", "ValueError",
                     "ClientError", "EndpointConnectionError"}

\* What the remote answers to put_object: success, a rejection botocore
\* raises as ClientError, or a transport failure (a BotoCoreError).
Responses == {"ok", "ClientError", "EndpointConnectionError"}

\* send_file: except ClientError / except FileNotFoundError, both only logged.
send_file_catches(exc) == exc \in {"ClientError", "FileNotFoundError"}

\* Mutant of process_csv_catches: only I/O errors are caught.
process_csv_catches_io_only(exc) == exc \in {"FileNotFoundError", "OSError"}

\* process_csv: except Exception.
process_csv_catches(exc) == exc \in ExceptionClasses

\* A coroutine as on_created hands it to the loop: not started yet.
NewRun(file_path) ==
    [file_path |-> file_path,
     pc        |-> "scheduled",   \* scheduled, connect, put, close, done
     state     |-> "Detected",    \* last stage the run logged, or Failed
     failedAt  |-> "-",           \* the stage that raised
     cause     |-> "none",        \* the exception process_csv logged
     exc       |-> "none",        \* exception leaving send_file
     resp      |-> "none",        \* the remote's answer to this run's put_object
     read      |-> Garbage,       \* local: the source content read_csv parsed
     body      |-> Garbage,       \* local: Body of the put_object request
     ops       |-> <<>>]          \* history: the operations the run performed

\* The coroutine returns: its locals are gone.
Return(r) == [r EXCEPT !.pc = "done", !.exc = "none", !.read = Garbage, !.body = Garbage]

\* Mutant of Fail: the error of an early stage is logged and the run goes on.
Fail_and_go_on(r, stage, exc) ==
    [r EXCEPT !.pc = IF stage \in {"Read", "Filtered", "Staged"} THEN "connect" ELSE "done",
              !.state = "Failed", !.failedAt = stage, !.cause = exc]

\* The run after `stage` raised `exc`: process_csv's handler logs the error
\* and the coroutine returns; an exception it does not catch leaves the
\* coroutine unhandled.
Fail(r, stage, exc) ==
    IF process_csv_catches(exc)
    THEN [Return(r) EXCEPT !.state = "Failed", !.failedAt = stage, !.cause = exc]
    ELSE [Return(r) EXCEPT !.state = "Unhandled", !.failedAt = stage, !.cause = exc]

\* Mutant of AfterSendFileError: put_object is retried until it succeeds.
AfterSendFileError_retry_forever(r, exc) == [r EXCEPT !.pc = "put"]

\* The run after send_file met `exc` inside its try block.
AfterSendFileError(r, exc) ==
    IF send_file_catches(exc)
    THEN [r EXCEPT !.pc = "close", !.exc = "none"]
    ELSE [r EXCEPT !.pc = "close", !.exc = exc]

\* The runs for name n, other than run i, that are between their start and
\* their return: they hold a staged file, a request or a pending move.
InFlight(n, i) ==
    {k \in 1..Len(runs) : k # i /\ runs[k].file_path = n
                             /\ runs[k].pc \in {"connect", "put", "close"}}

\* The CA bundle main() passes to the client: ~/.selectels3/root.crt.
CaBundlePath == "~/.selectels3/root.crt"

\* main() once observer.start() has returned.
Running ==
    [pc       |-> "running",      \* cert, construct, start, running, aborted, exited
     files    |-> {CaBundlePath}, \* the certificate files on disk
     observer |-> "started",      \* none, started, stopped
     error    |-> "none"]         \* the exception that left main()

\* No call made yet on the demo client.
NoCall == [op |-> "none", key |-> <<>>, code |-> "none", result |-> "none", raised |-> "none"]

Init ==
    /\ srcDir = EmptyDir
    /\ tmpDir = EmptyDir
    /\ archDir = EmptyDir
    /\ bucket = EmptyDir
    /\ runs = <<>>
    /\ delivered = 0
    /\ matched = <<>>
    /\ created = EmptyBag
    /\ overlapped = {}
    /\ proc = Running
    /\ client = NoCall

\* Environment: a new file appears in the watched directory.
CreateFile(n, c) ==
    /\ BagCardinality(created) < MaxCreates
    /\ n \notin DOMAIN srcDir
    /\ srcDir' = Put(srcDir, n, c)
    /\ created' = created (+) SetToBag({<<n, c>>})
    /\ UNCHANGED <<tmpDir, archDir, bucket, runs, delivered, matched, overlapped, outside>>

\* Mutant of Scheduled: the callback reads the file before the hand-off.
Scheduled_after_read(rs, event) ==
    IF accepts(event)
    THEN Append(rs, [NewRun(event.src_path) EXCEPT !.state = "Read", !.ops = <<"read_csv">>])
    ELSE rs

\* The runs after on_created handled `event`.
Scheduled(rs, event) ==
    IF accepts(event) THEN Append(rs, NewRun(event.src_path)) ELSE rs

\* CSVHandler.on_created, on the observer thread.
on_created(event) ==
    /\ delivered < MaxEvents
    /\ delivered' = delivered + 1
    /\ matched' = IF IsCsvFileEvent(event) THEN Append(matched, event.src_path) ELSE matched
    /\ runs' = Scheduled(runs, event)
    /\ UNCHANGED <<srcDir, tmpDir, archDir, bucket, created, overlapped, outside>>

\* process_csv from its start to the first suspension, in send_file's
\* _connect: read_csv, dropna, to_csv and send_file's is_file check.
process_csv_start(i, stage_ok) ==
    /\ i \in 1..Len(runs)
    /\ runs[i].pc = "scheduled"
    /\ LET r == runs[i]
           n == r.file_path
       IN  IF n \notin DOMAIN srcDir
           THEN /\ runs' = [runs EXCEPT ![i] = Fail(r, "Read", "FileNotFoundError")]
                /\ UNCHANGED tmpDir
           ELSE IF ~CanParse(srcDir[n])
           THEN /\ runs' = [runs EXCEPT ![i] = Fail(r, "Read", "ParserError")]
                /\ UNCHANGED tmpDir
           ELSE LET df == read_csv(srcDir[n])
                    df_filtered == dropna(df)
                    r2 == [r EXCEPT !.state = "Filtered", !.read = srcDir[n],
                                    !.ops = <<"read_csv", "dropna">>]
                IN  IF ~stage_ok
                    THEN /\ runs' = [runs EXCEPT ![i] = Fail(r2, "Staged", "OSError")]
                         /\ UNCHANGED tmpDir
                    ELSE /\ tmpDir' = Put(tmpDir, n, to_csv(df_filtered))
                         /\ runs' = [runs EXCEPT ![i] =
                               IF n \in DOMAIN tmpDir'
                               THEN [r2 EXCEPT !.state = "Staged", !.pc = "connect",
                                               !.ops = r2.ops \o <<"to_csv", "send_file">>]
                               ELSE Fail([r2 EXCEPT !.state = "Staged",
                                               !.ops = r2.ops \o <<"to_csv", "send_file">>],
                                         "Uploaded", "ValueError")]
    /\ overlapped' = IF runs'[i].pc = "connect" /\ InFlight(runs[i].file_path, i) # {}
                     THEN overlapped \cup {runs[i].file_path}
                     ELSE overlapped
    /\ UNCHANGED <<srcDir, archDir, bucket, delivered, matched, created, outside>>

\* send_file once the client context is entered: open the staged file and
\* issue put_object.
send_file_connect(i) ==
    /\ i \in 1..Len(runs)
    /\ runs[i].pc = "connect"
    /\ LET r == runs[i]
           n == r.file_path
       IN  runs' = [runs EXCEPT ![i] =
              IF n \in DOMAIN tmpDir
              THEN [r EXCEPT !.pc = "put", !.body = tmpDir[n],
                             !.ops = Append(r.ops, "put_object")]
              ELSE AfterSendFileError(r, "FileNotFoundError")]
    /\ UNCHANGED <<srcDir, tmpDir, archDir, bucket, delivered, matched, created, overlapped, outside>>

\* put_object returns or raises.
put_object_return(i, resp) ==
    /\ i \in 1..Len(runs)
    /\ runs[i].pc = "put"
    /\ LET r == [runs[i] EXCEPT !.resp = resp]
       IN  IF resp = "ok"
           THEN /\ bucket' = Put(bucket, remote_name(r.file_path), r.body)
                /\ runs' = [runs EXCEPT ![i] = [r EXCEPT !.pc = "close"]]
           ELSE /\ bucket' = bucket
                /\ runs' = [runs EXCEPT ![i] = AfterSendFileError(r, resp)]
    /\ UNCHANGED <<srcDir, tmpDir, archDir, delivered, matched, created, overlapped, outside>>

\* Mutant of process_csv_finish: the staged file is unlinked before the
\* source is moved to the archive.
process_csv_finish_unlink_first(i, move_ok) ==
    /\ i \in 1..Len(runs)
    /\ runs[i].pc = "close"
    /\ LET r == runs[i]
           n == r.file_path
           r3 == [r EXCEPT !.state = "Uploaded", !.ops = Append(r.ops, "send_file_returned")]
           r4 == [r3 EXCEPT !.ops = Append(r3.ops, "unlink")]
       IN  IF r.exc # "none"
           THEN /\ runs' = [runs EXCEPT ![i] = Fail(r, "Uploaded", r.exc)]
                /\ UNCHANGED <<srcDir, archDir, tmpDir>>
           ELSE IF n \notin DOMAIN tmpDir
           THEN /\ runs' = [runs EXCEPT ![i] = Fail(r3, "Cleaned", "FileNotFoundError")]
                /\ UNCHANGED <<srcDir, archDir, tmpDir>>
           ELSE /\ tmpDir' = Remove(tmpDir, n)
                /\ IF n \notin DOMAIN srcDir \/ ~move_ok
                   THEN /\ runs' = [runs EXCEPT ![i] = Fail(r4, "Archived", "OSError")]
                        /\ UNCHANGED <<srcDir, archDir>>
                   ELSE /\ archDir' = Put(archDir, n, srcDir[n])
                        /\ srcDir' = Remove(srcDir, n)
                        /\ runs' = [runs EXCEPT ![i] =
                              [Return(r4) EXCEPT !.state = "Cleaned",
                                                 !.ops = Append(r4.ops, "move")]]
    /\ UNCHANGED <<bucket, delivered, matched, created, overlapped, outside>>

\* process_csv after the client context is left: send_file returns or
\* raises, then shutil.move and unlink.
process_csv_finish(i, move_ok) ==
    /\ i \in 1..Len(runs)
    /\ runs[i].pc = "close"
    /\ LET r == runs[i]
           n == r.file_path
           r3 == [r EXCEPT !.state = "Uploaded", !.ops = Append(r.ops, "send_file_returned")]
           r4 == [r3 EXCEPT !.state = "Archived", !.ops = Append(r3.ops, "move")]
       IN  IF r.exc # "none"
           THEN /\ runs' = [runs EXCEPT ![i] = Fail(r, "Uploaded", r.exc)]
                /\ UNCHANGED <<srcDir, archDir, tmpDir>>
           ELSE IF n \notin DOMAIN srcDir
           THEN /\ runs' = [runs EXCEPT ![i] = Fail(r3, "Archived", "FileNotFoundError")]
                /\ UNCHANGED <<srcDir, archDir, tmpDir>>
           ELSE IF ~move_ok
           THEN /\ runs' = [runs EXCEPT ![i] = Fail(r3, "Archived", "OSError")]
                /\ UNCHANGED <<srcDir, archDir, tmpDir>>
           ELSE /\ archDir' = Put(archDir, n, srcDir[n])
                /\ srcDir' = Remove(srcDir, n)
                /\ IF n \notin DOMAIN tmpDir
                   THEN /\ runs' = [runs EXCEPT ![i] =
                                       Fail(r4, "Cleaned", "FileNotFoundError")]
                        /\ UNCHANGED tmpDir
                   ELSE /\ tmpDir' = Remove(tmpDir, n)
                        /\ runs' = [runs EXCEPT ![i] =
                              [Return(r4) EXCEPT !.state = "Cleaned",
                                                 !.ops = Append(r4.ops, "unlink")]]
    /\ UNCHANGED <<bucket, delivered, matched, created, overlapped, outside>>

\* One step of the coroutine of run i on the event loop.
RunStep(i) ==
    \/ \E stage_ok \in BOOLEAN : process_csv_start(i, stage_ok)
    \/ send_file_connect(i)
    \/ \E resp \in Responses : put_object_return(i, resp)
    \/ \E move_ok \in BOOLEAN : process_csv_finish(i, move_ok)

Next ==
    \/ \E n \in FileNames, c \in Contents : CreateFile(n, c)
    \/ \E event \in Events : on_created(event)
    \/ \E i \in 1..MaxEvents, stage_ok \in BOOLEAN : process_csv_start(i, stage_ok)
    \/ \E i \in 1..MaxEvents : send_file_connect(i)
    \/ \E i \in 1..MaxEvents, resp \in Responses : put_object_return(i, resp)
    \/ \E i \in 1..MaxEvents, move_ok \in BOOLEAN : process_csv_finish(i, move_ok)

Spec == Init /\ [][Next]_vars

\* The event loop runs every ready coroutine, and every remote call returns.
FairSpec == Spec /\ \A i \in 1..MaxEvents : WF_vars(RunStep(i))

----------------------------------------------------------------------------
(* main(): start-up and interruption.  Spec starts where observer.start()  *)
(* has returned; BootSpec starts at the first line of main(), and          *)
(* ShutdownSpec adds the interruption of the sleep loop.                   *)

pipeline == <<srcDir, tmpDir, archDir, bucket, runs, delivered, matched, created, overlapped>>

\* Mutant of init_raises: the constructor does not look at the CA bundle.
init_raises_never(ca_bundle, files) == FALSE

\* AsyncObjectStorage.__init__: a CA bundle is named and is not a file.
init_raises(ca_bundle, files) == ca_bundle # "" /\ ca_bundle \notin files

\* main() is entered; the certificate may or may not be on disk.
BootInit ==
    /\ srcDir = EmptyDir
    /\ tmpDir = EmptyDir
    /\ archDir = EmptyDir
    /\ bucket = EmptyDir
    /\ runs = <<>>
    /\ delivered = 0
    /\ matched = <<>>
    /\ created = EmptyBag
    /\ overlapped = {}
    /\ \E files \in SUBSET {CaBundlePath} :
          proc = [pc |-> "cert", files |-> files, observer |-> "none", error |-> "none"]
    /\ client = NoCall

\* main: if the certificate is not a file, download it with urlretrieve.
main_fetch_cert(download_ok) ==
    /\ proc.pc = "cert"
    /\ proc' = IF CaBundlePath \in proc.files
               THEN [proc EXCEPT !.pc = "construct"]
               ELSE IF download_ok
               THEN [proc EXCEPT !.pc = "construct", !.files = proc.files \cup {CaBundlePath}]
               ELSE [proc EXCEPT !.pc = "aborted", !.error = "URLError"]
    /\ UNCHANGED <<pipeline, client>>

\* Environment: the certificate is deleted before the client is constructed.
RemoveCert ==
    /\ proc.pc = "construct"
    /\ CaBundlePath \in proc.files
    /\ proc' = [proc EXCEPT !.files = proc.files \ {CaBundlePath}]
    /\ UNCHANGED <<pipeline, client>>

\* main: storage = AsyncObjectStorage(..., ca_bundle=ca_bundle_path).
main_construct ==
    /\ proc.pc = "construct"
    /\ proc' = IF init_raises(CaBundlePath, proc.files)
               THEN [proc EXCEPT !.pc = "aborted", !.error = "FileNotFoundError"]
               ELSE [proc EXCEPT !.pc = "start"]
    /\ UNCHANGED <<pipeline, client>>

\* main: CSVHandler(...), observer.schedule(...), observer.start().
main_start ==
    /\ proc.pc = "start"
    /\ proc' = [proc EXCEPT !.pc = "running", !.observer = "started"]
    /\ UNCHANGED <<pipeline, client>>

BootNext ==
    \/ \E download_ok \in BOOLEAN : main_fetch_cert(download_ok)
    \/ RemoveCert
    \/ main_construct
    \/ main_start
    \/ (proc.pc = "running" /\ Next)

BootSpec == BootInit /\ [][BootNext]_vars

\* A coroutine cancelled at its suspension point: CancelledError is not an
\* Exception, so neither handler logs anything and the run is in no stage.
Cancelled(r) == IF r.pc = "done" THEN r ELSE [Return(r) EXCEPT !.state = "Cancelled"]

\* The bucket once the put_object requests of the runs in `landed`, sent
\* before the cancellation, have been served in run order.
RECURSIVE Landed(_, _, _)
Landed(b, landed, i) ==
    IF i > Len(runs) THEN b
    ELSE Landed(IF i \in landed THEN Put(b, remote_name(runs[i].file_path), runs[i].body) ELSE b,
                landed, i + 1)

\* SIGINT while main() sleeps.  Either KeyboardInterrupt reaches main's
\* handler, which stops and joins the observer and returns, or main() is
\* cancelled and the observer thread dies with the process; in both cases
\* asyncio.run() then cancels every coroutine still on the loop.
main_interrupted(caught, landed) ==
    /\ proc.pc = "running"
    /\ landed \subseteq {i \in 1..Len(runs) : runs[i].pc = "put"}
    /\ proc' = [proc EXCEPT !.pc = "exited",
                            !.observer = IF caught THEN "stopped" ELSE "started",
                            !.error = IF caught THEN "none" ELSE "KeyboardInterrupt"]
    /\ runs' = [i \in 1..Len(runs) |-> Cancelled(runs[i])]
    /\ bucket' = Landed(bucket, landed, 1)
    /\ UNCHANGED <<srcDir, tmpDir, archDir, delivered, matched, created, overlapped, client>>

ShutdownNext ==
    \/ (proc.pc = "running" /\ Next)
    \/ \E caught \in BOOLEAN, landed \in SUBSET (1..MaxEvents) : main_interrupted(caught, landed)

ShutdownSpec == Init /\ [][ShutdownNext]_vars

----------------------------------------------------------------------------
(* The storage client of 6_1.py, called directly as run_demo does.  Its    *)
(* send_file keys the object by the bare file name; the local files are    *)
(* those of srcDir.  `client` records the last call: the remote's status   *)
(* code, the value returned and the exception that left the method.        *)

\* Paths and keys the calls are made with; c.txt is never a local file.
ClientNames == FileNames \cup {NameT}

\* What the remote can do to a request apart from serving it: refuse it
\* (botocore raises ClientError with that code) or not be reached.
Faults == {"none", "403", "500", "EndpointConnectionError"}

ClientErrorCodes == {"403", "404", "500"}

\* The remote's answer to a request that succeeds with `ok` when served.
Reply(fault, ok) == IF fault = "none" THEN ok ELSE fault

\* head_object: 200 for a key in the bucket, ClientError 404 otherwise.
head_object(b, key, fault) ==
    Reply(fault, IF key \in DOMAIN b THEN "200" ELSE "404")

\* The exception leaving a method whose handlers are except ClientError and
\* except FileNotFoundError.
Raised(code) == IF code = "EndpointConnectionError" THEN code ELSE "none"

\* Mutant of file_exists_returns: every answer of the remote counts as found.
file_exists_returns_found(code) == IF code = "EndpointConnectionError" THEN "none" ELSE "True"

\* file_exists: True after head_object; False for ClientError 404, and,
\* after a print, False for every other ClientError; nothing is returned
\* when another exception leaves the method.
file_exists_returns(code) ==
    IF code = "200" THEN "True"
    ELSE IF code \in ClientErrorCodes
    THEN (IF code = "404" THEN "False" ELSE "False")
    ELSE "none"

ClientInit ==
    /\ srcDir \in [FileNames -> {Clean, Example}]
    /\ tmpDir = EmptyDir
    /\ archDir = EmptyDir
    /\ bucket = EmptyDir
    /\ runs = <<>>
    /\ delivered = 0
    /\ matched = <<>>
    /\ created = EmptyBag
    /\ overlapped = {}
    /\ proc = [Running EXCEPT !.pc = "demo", !.observer = "none"]
    /\ client = NoCall

\* AsyncObjectStorage.send_file(local_source) of 6_1.py.
send_file(local_source, fault) ==
    LET code == Reply(fault, "200")
    IN  /\ IF local_source \notin DOMAIN srcDir
           THEN /\ client' = [op |-> "send_file", key |-> local_source, code |-> "none",
                              result |-> "none", raised |-> "ValueError"]
                /\ bucket' = bucket
           ELSE /\ client' = [op |-> "send_file", key |-> local_source, code |-> code,
                              result |-> "none", raised |-> Raised(code)]
                /\ bucket' = IF code = "200"
                             THEN Put(bucket, local_source, srcDir[local_source])
                             ELSE bucket
        /\ UNCHANGED <<srcDir, tmpDir, archDir, runs, delivered, matched, created, overlapped, proc>>

\* AsyncObjectStorage.remove_file(remote_name): delete_object answers 204
\* whether or not the key exists.
remove_file(key, fault) ==
    LET code == Reply(fault, "204")
    IN  /\ client' = [op |-> "remove_file", key |-> key, code |-> code,
                      result |-> "none", raised |-> Raised(code)]
        /\ bucket' = IF code = "204" THEN Remove(bucket, key) ELSE bucket
        /\ UNCHANGED <<srcDir, tmpDir, archDir, runs, delivered, matched, created, overlapped, proc>>

\* AsyncObjectStorage.file_exists(remote_name).
file_exists(key, fault) ==
    LET code == head_object(bucket, key, fault)
    IN  /\ client' = [op |-> "file_exists", key |-> key, code |-> code,
                      result |-> file_exists_returns(code), raised |-> Raised(code)]
        /\ UNCHANGED <<pipeline, proc>>

ClientNext ==
    \/ \E n \in ClientNames, fault \in Faults : send_file(n, fault)
    \/ \E n \in ClientNames, fault \in Faults : remove_file(n, fault)
    \/ \E n \in ClientNames, fault \in Faults : file_exists(n, fault)

ClientSpec == ClientInit /\ [][ClientNext]_vars

----------------------------------------------------------------------------
(* Properties.                                                             *)

Terminal == {"Cleaned", "Failed"}
Early == {"Read", "Filtered", "Staged"}
Rejected == {"ClientError", "EndpointConnectionError"}

\* Run i ends in this step.
Ends(i) == runs[i].pc # "done" /\ runs'[i].pc = "done"

\* C1: at most one run per source path is non-terminal at any time.
C1_OneActiveRunPerPath ==
    \A i, j \in 1..Len(runs) :
        (i # j /\ runs[i].file_path = runs[j].file_path)
            => (runs[i].state \in Terminal \/ runs[j].state \in Terminal)

\* C2: a run whose put_object was rejected ends Failed at Uploaded, without
\* archiving and without cleanup: the staged file and the source file stay.
C2_FailedUploadStops ==
    [][\A i \in 1..Len(runs) :
          (runs[i].resp \in Rejected /\ Ends(i))
              => /\ runs'[i].state = "Failed"
                 /\ runs'[i].failedAt = "Uploaded"
                 /\ runs'[i].file_path \in DOMAIN tmpDir'
                 /\ runs'[i].file_path \in DOMAIN srcDir'
                 /\ <<srcDir', archDir', tmpDir'>> = <<srcDir, archDir, tmpDir>>]_vars

\* C3: a run that fails at the Archived stage leaves the remote object
\* processed/<name> in the bucket and the staged file in the temp directory.
C3_FailedArchiveKeepsObject ==
    [][\A i \in 1..Len(runs) :
          (Ends(i) /\ runs'[i].state = "Failed" /\ runs'[i].failedAt = "Archived")
              => /\ remote_name(runs'[i].file_path) \in DOMAIN bucket'
                 /\ runs'[i].file_path \in DOMAIN tmpDir'
                 /\ tmpDir' = tmpDir]_vars

\* Cell literals that denote the same number.
SameNumber(a, b) ==
    \/ a = b
    \/ {a, b} = {"5", "5.0"}
    \/ {a, b} = {"9", "9.0"}

HasAllValues(row) == row.val # ""

\* `body` holds exactly the rows of the CSV file `F` that have no missing
\* value, in the order of F, with the same ids and the same numbers.
IsFiltered(F, body) ==
    LET kept == SelectSeq(F.rows, HasAllValues)
    IN  /\ body.kind = "csv"
        /\ Len(body.rows) = Len(kept)
        /\ \A k \in 1..Len(kept) :
              /\ body.rows[k].id = kept[k].id
              /\ body.rows[k].val # ""
              /\ SameNumber(body.rows[k].val, kept[k].val)

\* Run i is the only run ever scheduled for its file name.
Sole(i) == \A j \in 1..Len(runs) : j # i => runs[j].file_path # runs[i].file_path

\* C4: when a run whose stages all succeeded, and whose file name no other
\* run touches, reaches Cleaned, the bucket holds processed/<name> with the
\* complete rows of the source, the archive holds the source, and neither
\* the temp nor the watched directory holds the name.
C4_EndToEnd ==
    [][\A i \in 1..Len(runs) :
          (Ends(i) /\ runs'[i].state = "Cleaned" /\ runs[i].resp = "ok" /\ Sole(i))
              => LET n == runs[i].file_path
                     F == runs[i].read
                 IN  /\ remote_name(n) \in DOMAIN bucket'
                     /\ IsFiltered(F, bucket'[remote_name(n)])
                     /\ n \in DOMAIN archDir'
                     /\ archDir'[n] = F
                     /\ n \notin DOMAIN tmpDir'
                     /\ n \notin DOMAIN srcDir']_vars

\* C4 witness: a sole, fully successful run of the spec's example file is
\* Cleaned and its two complete rows are in the bucket.
C4_Witness ==
    \E i \in 1..Len(runs) :
        /\ runs[i].state = "Cleaned" /\ runs[i].resp = "ok" /\ Sole(i)
        /\ runs[i].file_path \in DOMAIN archDir
        /\ archDir[runs[i].file_path] = Example
        /\ remote_name(runs[i].file_path) \in DOMAIN bucket
        /\ Len(bucket[remote_name(runs[i].file_path)].rows) = 2

\* The operations of a run that act on the remote store, the archive or
\* the staged file after staging.
LateOps == {"send_file", "put_object", "send_file_returned", "move", "unlink"}

OpsOf(r) == {r.ops[k] : k \in 1..Len(r.ops)}

\* C5: a run that fails at Read, Filtered or Staged ends there: it issues no
\* upload, and its failing step leaves bucket, archive and source unchanged.
C5_EarlyFailureStops ==
    [][\A i \in 1..Len(runs) :
          (runs'[i].state = "Failed" /\ runs'[i].failedAt \in Early)
              => /\ runs'[i].pc = "done"
                 /\ OpsOf(runs'[i]) \cap LateOps = {}
                 /\ runs'[i].resp = "none"
                 /\ runs'[i].failedAt = "Read" => runs'[i].ops = <<>>
                 /\ runs'[i].failedAt = "Filtered" => runs'[i].ops = <<"read_csv">>
                 /\ runs'[i].failedAt = "Staged" => runs'[i].ops = <<"read_csv", "dropna">>
                 /\ Ends(i) => <<bucket', archDir', srcDir'>> = <<bucket, archDir, srcDir>>]_vars

\* C5 witness: one run failed at Read on an unparsable file that is still
\* in the watched directory, another failed at Staged.
C5_Witness ==
    \E i, j \in 1..Len(runs) :
        /\ runs[i].state = "Failed" /\ runs[i].failedAt = "Read"
        /\ runs[i].cause = "ParserError"
        /\ runs[i].file_path \in DOMAIN srcDir
        /\ runs[j].state = "Failed" /\ runs[j].failedAt = "Staged"
        /\ runs[j].file_path \in DOMAIN srcDir

\* The operations of a run in program order.
Order == <<"read_csv", "dropna", "to_csv", "send_file", "put_object",
           "send_file_returned", "move", "unlink">>

\* The same when send_file returns without having issued put_object.
OrderNoPut == <<"read_csv", "dropna", "to_csv", "send_file",
                "send_file_returned", "move", "unlink">>

Prefixes(seq) == {SubSeq(seq, 1, k) : k \in 0..Len(seq)}

AllowedOps == Prefixes(Order) \cup Prefixes(OrderNoPut)

Rank == [Detected |-> 1, Read |-> 2, Filtered |-> 3, Staged |-> 4,
         Uploaded |-> 5, Archived |-> 6, Cleaned |-> 7]

\* The operations performed are an initial part of the program order, so
\* none is skipped, repeated or reordered: put_object after to_csv, move
\* after send_file returned, unlink after move.  A Cleaned run did them all.
InOrder(r) ==
    /\ r.ops \in AllowedOps
    /\ r.state = "Cleaned" => r.ops \in {Order, OrderNoPut}
    /\ r.state = "Staged" => r.ops \in {SubSeq(Order, 1, 4), SubSeq(Order, 1, 5)}

\* C6: the stages of a run execute in the strict order Read, Filtered,
\* Staged, Uploaded, Archived, Cleaned; a run only moves forward or fails,
\* and a terminal run stays as it is.
C6_StrictStageOrder ==
    [][\A i \in 1..Len(runs) :
          /\ InOrder(runs'[i])
          /\ runs'[i] # runs[i] =>
                /\ runs[i].state \in DOMAIN Rank \ {"Cleaned"}
                /\ runs[i].ops \in Prefixes(runs'[i].ops)
                /\ \/ runs'[i].state = "Failed"
                   \/ /\ runs'[i].state \in DOMAIN Rank
                      /\ Rank[runs'[i].state] >= Rank[runs[i].state]]_vars

\* C6 witness: a run went through every stage.
C6_Witness ==
    \E i \in 1..Len(runs) :
        /\ runs[i].state = "Cleaned"
        /\ runs[i].ops = Order

\* The watcher can take the next notification, whatever it is.
WatcherReady == delivered < MaxEvents => \A event \in Events : ENABLED on_created(event)

\* C7: a failure stays inside its run.  Every exception raised in a run is
\* caught by the run (none leaves the coroutine unhandled), the failing step
\* changes no other run, every unfinished run and the watcher can still
\* take their next step, and a matching notification delivered after a
\* failure schedules a fresh run.
C7_FailureContained ==
    /\ [](\A i \in 1..Len(runs) :
            /\ runs[i].state # "Unhandled"
            /\ runs[i].pc # "done" => ENABLED RunStep(i))
    /\ []WatcherReady
    /\ [][\A i \in 1..Len(runs) :
            /\ (Ends(i) /\ runs'[i].state # "Cleaned")
                  => /\ runs'[i].state = "Failed"
                     /\ \A j \in 1..Len(runs') : j # i =>
                           (j <= Len(runs) /\ runs'[j] = runs[j])
            /\ (runs[i].state = "Failed" /\ Len(matched') = Len(matched) + 1)
                  => /\ Len(runs') = Len(runs) + 1
                     /\ runs'[Len(runs')].pc = "scheduled"
                     /\ runs'[Len(runs')].file_path = matched'[Len(matched')]]_vars

\* C7 witness: a run failed and a run scheduled after it was processed to
\* Cleaned with its upload accepted.
C7_Witness ==
    /\ Len(runs) = 2
    /\ runs[1].state = "Failed"
    /\ runs[2].state = "Cleaned" /\ runs[2].resp = "ok"

\* C8: the runs ever scheduled are exactly the delivered notifications that
\* are for a file with extension .csv in any letter case, one run each, in
\* order of delivery; directory events and other names schedule nothing.
C8_OneRunPerMatchingNotification ==
    /\ Len(runs) = Len(matched)
    /\ \A k \in 1..Len(runs) : runs[k].file_path = matched[k]
    /\ Len(runs) <= delivered

\* C8 witness: of two notifications one was ignored and the one for the
\* upper-case name b.CSV scheduled a run.
C8_Witness ==
    /\ delivered = 2
    /\ Len(runs) = 1
    /\ runs[1].file_path = NameB

\* C9: handling a notification only appends a not yet started coroutine:
\* it touches no directory, no bucket and no existing run, and it is
\* enabled whatever the state of the earlier runs.
C9_WatcherNeverBlocks ==
    /\ []WatcherReady
    /\ [][delivered' = delivered + 1
            => /\ <<srcDir', tmpDir', archDir', bucket'>> = <<srcDir, tmpDir, archDir, bucket>>
               /\ Len(runs') \in {Len(runs), Len(runs) + 1}
               /\ SubSeq(runs', 1, Len(runs)) = runs
               /\ \A k \in (Len(runs) + 1)..Len(runs') :
                     /\ runs'[k].pc = "scheduled"
                     /\ runs'[k].state = "Detected"
                     /\ runs'[k].ops = <<>>]_vars

\* C9 witness: a notification was accepted, and its run is scheduled, while
\* an earlier run is suspended in put_object.
C9_Witness ==
    /\ Len(runs) = 2
    /\ runs[1].pc = "put"
    /\ runs[2].pc = "scheduled"

\* C10: under fair scheduling of the coroutines, with every remote call
\* returning, each scheduled run eventually is Cleaned or Failed: no run
\* stays scheduled and unfinished for ever.  (A run stays scheduled once it
\* is, and stays terminal once it is, so this is "scheduled leads to
\* terminal".)
C10_EveryRunTerminates ==
    \A i \in 1..MaxEvents :
        []<>(Len(runs) < i \/ (runs[i].pc = "done" /\ runs[i].state \in Terminal))

\* C10 witness: a run for another path is Cleaned while an earlier run is
\* still suspended in put_object.
C10_Witness ==
    /\ Len(runs) = 2
    /\ runs[1].pc = "put"
    /\ runs[2].file_path # runs[1].file_path
    /\ runs[2].state = "Cleaned"

\* C11: cleanup is best-effort.  A run that archived its source ends Cleaned
\* even when the unlink of its staged file fails because the staged file is
\* already absent: the failure of cleanup never makes the run Failed.
C11_CleanupBestEffort ==
    \A i \in 1..Len(runs) :
        ("move" \in OpsOf(runs[i]) /\ runs[i].pc = "done")
            => runs[i].state = "Cleaned"

\* C12: archiving never silently overwrites.  When the archive directory
\* already holds a file of the run's name, the archive step fails: the run
\* ends Failed at Archived, the archived file is unchanged and the source
\* stays in the watched directory.
C12_ArchiveNeverOverwrites ==
    [][\A i \in 1..Len(runs) :
          (/\ Ends(i)
           /\ runs[i].pc = "close" /\ runs[i].exc = "none"
           /\ runs[i].file_path \in DOMAIN srcDir
           /\ runs[i].file_path \in DOMAIN archDir)
              => /\ runs'[i].state = "Failed"
                 /\ runs'[i].failedAt = "Archived"
                 /\ archDir' = archDir
                 /\ srcDir' = srcDir]_vars

\* The number of put_object requests run r has issued.
PutAttempts(r) == Cardinality({k \in 1..Len(r.ops) : r.ops[k] = "put_object"})

\* C14: a transient remote error on upload is retried.  A run whose
\* put_object met a transport failure has issued more than one put_object
\* by the time it ends, and it ends Failed only after the last attempt.
C14_TransientUploadRetried ==
    \A i \in 1..Len(runs) :
        (runs[i].resp = "EndpointConnectionError" /\ runs[i].pc = "done")
            => PutAttempts(runs[i]) > 1

\* The key the run for name n is to write, spelled out.
ProcessedKey(n) == <<"processed/">> \o n

\* Key k ends in name n.
KeyFor(k, n) == Len(k) >= Len(n) /\ SubSeq(k, Len(k) - Len(n) + 1, Len(k)) = n

\* C18: replay is idempotent at the remote.  Every accepted upload of a run
\* for name n writes exactly the key processed/n and no other.  When a run
\* for n whose upload was accepted ends Cleaned and no two runs for n were
\* ever in flight together, the bucket holds one object for n, under
\* processed/n, and its body is the transform of the file this run archived
\* (the later file): it depends on nothing processed before, so the same
\* content processed twice leaves what processing it once leaves.
C18_ReplayIdempotent ==
    [][\A i \in 1..Len(runs) :
          LET n == runs[i].file_path
              key == ProcessedKey(n)
          IN  /\ (runs[i].pc = "put" /\ runs'[i].resp = "ok")
                    => /\ DOMAIN bucket' = DOMAIN bucket \cup {key}
                       /\ bucket'[key] = runs[i].body
                       /\ \A k \in DOMAIN bucket \ {key} : bucket'[k] = bucket[k]
              /\ (Ends(i) /\ runs'[i].state = "Cleaned" /\ runs[i].resp = "ok"
                          /\ n \notin overlapped')
                    => /\ {k \in DOMAIN bucket' : KeyFor(k, n)} = {key}
                       /\ n \in DOMAIN archDir'
                       /\ IsFiltered(archDir'[n], bucket'[key])
                       /\ bucket'[key] = to_csv(dropna(read_csv(archDir'[n])))]_vars

\* C18 witness: two files named a.csv with different contents were processed
\* one after the other, both uploads accepted, and the bucket holds the
\* transform of the later one.
C18_Witness ==
    /\ Len(runs) = 2
    /\ \A i \in 1..2 : /\ runs[i].file_path = NameA
                       /\ runs[i].state = "Cleaned"
                       /\ runs[i].resp = "ok"
    /\ NameA \notin overlapped
    /\ BagCardinality(created) = 2
    /\ BagToSet(created) = {<<NameA, Example>>, <<NameA, Clean>>}
    /\ bucket[ProcessedKey(NameA)] = to_csv(dropna(read_csv(archDir[NameA])))

\* How many files of name n the environment has created.
RECURSIVE SumCopies(_, _)
SumCopies(n, cs) ==
    IF cs = {} THEN 0
    ELSE LET c == CHOOSE x \in cs : TRUE
         IN  CopiesIn(<<n, c>>, created) + SumCopies(n, cs \ {c})

Creations(n) == SumCopies(n, Contents)

RunsFor(n) == {i \in 1..Len(runs) : runs[i].file_path = n}

\* The runs that moved a source into the archive.
Movers(n) == {i \in RunsFor(n) : "move" \in OpsOf(runs[i])}

\* For a file created once at name n and notified at least twice: at most
\* one run moved the source to the archive and is Cleaned, and every other
\* finished run is Failed at one of `stages`, having moved and unlinked
\* nothing.
DuplicatesFailAt(stages) ==
    \A n \in FileNames :
        (Creations(n) = 1 /\ Cardinality(RunsFor(n)) >= 2)
            => /\ Cardinality(Movers(n)) <= 1
               /\ \A i \in Movers(n) : runs[i].state = "Cleaned"
               /\ \A i \in RunsFor(n) \ Movers(n) :
                     runs[i].pc = "done"
                        => /\ runs[i].state = "Failed"
                           /\ runs[i].failedAt \in stages
                           /\ "unlink" \notin OpsOf(runs[i])

\* C19 as claimed: the other runs fail at Read, Uploaded or Archived.
C19_AsClaimed == DuplicatesFailAt({"Read", "Uploaded", "Archived"})

\* C19, amended: for a file created once and notified at least twice, in
\* every interleaving at most one run moves the source into the archive and
\* reaches Cleaned; every other run ends Failed, at Read, Staged, Uploaded
\* or Archived, and removes no file from the source or archive directory.
C19_DuplicateNotifications ==
    /\ []DuplicatesFailAt({"Read", "Staged", "Uploaded", "Archived"})
    /\ [][\A n \in FileNames : \A i \in RunsFor(n) :
            (Creations(n) = 1 /\ Cardinality(RunsFor(n)) >= 2
                 /\ Ends(i) /\ runs'[i].state # "Cleaned")
               => <<srcDir', archDir'>> = <<srcDir, archDir>>]_vars

\* C19 witness: a.csv was created once and notified twice; one run is
\* Cleaned, the other overlapped it and is Failed at Archived.
C19_Witness ==
    /\ Creations(NameA) = 1
    /\ RunsFor(NameA) = {1, 2}
    /\ NameA \in overlapped
    /\ \E i, j \in {1, 2} :
          /\ runs[i].state = "Cleaned"
          /\ runs[j].state = "Failed" /\ runs[j].failedAt = "Archived"

\* 1 when directory dir holds a file of name n with content c.
Held(dir, n, c) == IF n \in DOMAIN dir /\ dir[n] = c THEN 1 ELSE 0

\* C20: no original file is ever lost.  In every reachable state each file
\* the environment created in the watched directory is in exactly one of
\* the watched directory and the archive directory: as many files of a name
\* and content are held there as were created.  (Runs delete only staged
\* files.)
C20_NoOriginalLost ==
    \A n \in FileNames, c \in Contents :
        Held(srcDir, n, c) + Held(archDir, n, c) = CopiesIn(<<n, c>>, created)

\* C13: shutdown ordering.  On shutdown the watcher stops accepting first
\* and every run in flight reaches Cleaned or Failed before the process
\* exits: when the process has exited no run is left short of a terminal
\* state, so none is cut off between its upload and its archive or cleanup.
C13_ShutdownDrainsRuns ==
    proc.pc = "exited" => \A i \in 1..Len(runs) : runs[i].state \in Terminal

\* C17: constructing the storage client with a CA bundle path that names no
\* existing file fails at once with FileNotFoundError: main() is left with
\* that error in the same step, which touches nothing else, and from then
\* on no watcher is started, no notification is taken, no run exists and
\* nothing was sent to the remote.
C17_MissingCaBundleFailsFast ==
    /\ [][(proc.pc = "construct" /\ CaBundlePath \notin proc.files /\ proc' # proc)
             => /\ proc'.pc = "aborted"
                /\ proc'.error = "FileNotFoundError"
                /\ UNCHANGED <<pipeline, client>>]_vars
    /\ [](proc.pc = "aborted"
             => /\ proc.observer = "none"
                /\ runs = <<>> /\ delivered = 0 /\ bucket = EmptyDir
                /\ ~ENABLED BootNext)

\* C17 witness: the certificate was downloaded, was gone when the client
\* was constructed, and main() ended with FileNotFoundError.
C17_Witness ==
    /\ proc.pc = "aborted"
    /\ proc.error = "FileNotFoundError"
    /\ CaBundlePath \notin proc.files

\* C15: exists(key) returns false only when the remote reports the key as
\* not found; for a key in the bucket it returns true; any other failure of
\* the remote leaves the call as an error and is not turned into false.
C15_ExistsFalseOnlyOnNotFound ==
    client.op = "file_exists"
        => /\ client.result = "False" => client.code = "404"
           /\ client.code = "200" => client.result = "True"
           /\ client.code \notin {"200", "404"}
                 => (client.result = "none" /\ client.raised # "none")

\* The last call was served by the remote without a failure.
Served == client.code \in {"200", "204", "404"}

\* C16: round trip of the successful client calls.  After a served upload
\* of X the bucket holds X with the local content, and a served exists(X)
\* returns true exactly when the bucket holds X, so true after the upload
\* and false after a served delete of X, which leaves X absent.  A served
\* delete of a key that is absent raises nothing and leaves the bucket as
\* it was.
C16_ClientRoundTrip ==
    /\ []((client.op = "send_file" /\ Served)
             => /\ client.key \in DOMAIN bucket
                /\ bucket[client.key] = srcDir[client.key]
                /\ client.raised = "none")
    /\ []((client.op = "remove_file" /\ Served)
             => /\ client.key \notin DOMAIN bucket
                /\ client.raised = "none")
    /\ []((client.op = "file_exists" /\ Served)
             => /\ client.result = (IF client.key \in DOMAIN bucket THEN "True" ELSE "False")
                /\ client.raised = "none")
    /\ [][(client'.op = "remove_file" /\ client'.code = "204"
              /\ client'.key \notin DOMAIN bucket) => bucket' = bucket]_vars
    /\ [][\A k \in DOMAIN bucket : k # client'.key =>
              (k \in DOMAIN bucket' /\ bucket'[k] = bucket[k])]_vars

\* C16 witness: a.csv was uploaded and then deleted, and exists(a.csv) now
\* returned false while another object is still in the bucket.
C16_Witness ==
    /\ client.op = "file_exists" /\ client.key = NameA
    /\ client.code = "404" /\ client.result = "False"
    /\ DOMAIN bucket = {NameB}

====
